---- MODULE Spec2Model ----
(***************************************************************************)
(* GenericLogProcessor ("main processsor.py"): log lines are parsed into   *)
(* timestamped events, the events are sorted by time and grouped into      *)
(* cycles by the EVENT_SEQUENCE state machine, and every finalized cycle   *)
(* is turned into a record.                                                *)
(*                                                                         *)
(* Times are microseconds.  Floats are held in thousandths ([float |-> n]  *)
(* stands for n/1000), which is exact for round(x, 2) and round(x, 3).     *)
(***************************************************************************)
EXTENDS Integers, Sequences, FiniteSets, TLC

(* ---------------------------- bounds ----------------------------------- *)
MaxEvents == 5
MaxFiles == 1
MaxTiming == 2

(* ------------------------ values of a record --------------------------- *)
Str(s) == [str |-> s]
IntV(n) == [int |-> n]
Float(th) == [float |-> th]
NaN == [nan |-> TRUE]
None == [none |-> TRUE]
Stamp(sec) == [stamp |-> sec]

Range(s) == {s[k] : k \in 1..Len(s)}

(* --------------------------- configurations ---------------------------- *)
FmtYmdSlash == "%Y/%m/%d %H:%M:%S.%f"
FmtYmdDash == "%Y-%m-%d %H:%M:%S.%f"
FmtDmySlash == "%d/%m/%Y %H:%M:%S.%f"

DEFAULT_TIMESTAMP_FORMATS == <<FmtYmdSlash, FmtYmdDash, FmtDmySlash>>

\* A pattern "<key>=(<cls>)": cls is "digits" for \d+, "word" for \S+ and
\* "rest" for .* ; PATTERN_CONFIG[evt] keeps the dict's insertion order.
Pat(field, key, cls) == [field |-> field, key |-> key, cls |-> cls]

\* The configuration of tests:/test_processor.py.
TestConfig ==
    [ EVENT_SEQUENCE |-> <<"init", "execute">>,
      PATTERN_CONFIG |-> ( "init" :> <<Pat("Step", "Step", "digits")>> @@
                           "execute" :> <<Pat("Value", "Value", "digits")>> ),
      TIMESTAMP_FORMATS |-> <<FmtYmdSlash>> ]

\* A configuration that names its stages as build_record expects them.
TechniqueConfig ==
    [ EVENT_SEQUENCE |-> <<"query", "technique", "timing">>,
      PATTERN_CONFIG |-> ( "query" :> <<Pat("Q", "Q", "rest")>> @@
                           "technique" :> <<Pat("Step", "Step", "digits")>> @@
                           "timing" :> <<Pat("Value", "Value", "word"),
                                         Pat("Temp", "Temp", "digits")>> ),
      TIMESTAMP_FORMATS |-> DEFAULT_TIMESTAMP_FORMATS ]

\* A sequence of length 1.
SingleConfig ==
    [ EVENT_SEQUENCE |-> <<"a">>,
      PATTERN_CONFIG |-> ( "a" :> <<Pat("Value", "Value", "digits")>> ),
      TIMESTAMP_FORMATS |-> DEFAULT_TIMESTAMP_FORMATS ]

Configs == {TestConfig, TechniqueConfig, SingleConfig}

(* ------------------------------ lines ---------------------------------- *)
Times == {0, 1000000}

Tok(key, val) == [key |-> key, val |-> val]

\* What stands between the first "[" and "]" of a line: nothing, a text no
\* format parses, or a time written in one format.
Brackets ==
    {[fmt |-> "none", time |-> 0], [fmt |-> "garbage", time |-> 0]}
    \cup {[fmt |-> FmtYmdSlash, time |-> t] : t \in Times}
    \cup {[fmt |-> FmtDmySlash, time |-> 0]}

TokSets ==
    { {}, {Tok("Step", "1")}, {Tok("Value", "100")}, {Tok("Value", "nan")},
      {Tok("Step", "1"), Tok("Value", "100")}, {Tok("Q", "7 ")} }

\* Every line parse_line is tried on alone.
AllLines == [bracket : Brackets, toks : TokSets]

Line(fmt, t, toks) == [bracket |-> [fmt |-> fmt, time |-> t], toks |-> toks]

\* The lines the files of a run are made of; the first two are the lines of
\* sample.log in tests:/test_processor.py.
Lines ==
    { Line(FmtYmdSlash, 0, {Tok("Step", "1")}),
      Line(FmtYmdSlash, 1000000, {Tok("Value", "100")}),
      Line(FmtYmdSlash, 0, {Tok("Value", "100")}),
      Line(FmtYmdSlash, 0, {Tok("Q", "7 ")}),
      Line(FmtDmySlash, 0, {Tok("Step", "1"), Tok("Value", "100")}),
      Line(FmtYmdSlash, 0, {}),
      Line("none", 0, {Tok("Step", "1")}),
      Line("garbage", 0, {Tok("Value", "100")}) }

NoLine == Line("none", 0, {})

FileName(n) == IF n = 1 THEN "sample.log" ELSE "sample2.log"

(* --------------------------- str and float ----------------------------- *)
IsDigits(s) == s \in {"1", "5", "7", "100", "200"}

\* str.strip()
Strip(s) == IF s = "7 " THEN "7" ELSE IF s = " 100" THEN "100" ELSE s

\* float(s): [ok, nan, v]; ok = FALSE is ValueError.
StrToFloat(s) ==
    CASE s = "1" -> [ok |-> TRUE, nan |-> FALSE, v |-> 1]
      [] s = "5" -> [ok |-> TRUE, nan |-> FALSE, v |-> 5]
      [] s = "7" -> [ok |-> TRUE, nan |-> FALSE, v |-> 7]
      [] s = "100" -> [ok |-> TRUE, nan |-> FALSE, v |-> 100]
      [] s = " 100" -> [ok |-> TRUE, nan |-> FALSE, v |-> 100]
      [] s = "200" -> [ok |-> TRUE, nan |-> FALSE, v |-> 200]
      [] s = "nan" -> [ok |-> TRUE, nan |-> TRUE, v |-> 0]
      [] OTHER -> [ok |-> FALSE, nan |-> FALSE, v |-> 0]

\* n / d rounded to the nearest integer, ties to even (n >= 0, d > 0).
RoundDiv(n, d) ==
    LET q == n \div d
        r == n % d
    IN  IF 2 * r < d THEN q
        ELSE IF 2 * r > d THEN q + 1
        ELSE IF q % 2 = 0 THEN q ELSE q + 1

RECURSIVE SumSeq(_)
SumSeq(s) == IF s = <<>> THEN 0 ELSE s[1] + SumSeq(Tail(s))

(* ------------------------- extract_timestamp --------------------------- *)
NoTimestamp == [ok |-> FALSE, time |-> 0]

\* datetime.strptime(ts_str, fmt)
Strptime(b, fmt) ==
    IF b.fmt = fmt THEN [ok |-> TRUE, time |-> b.time] ELSE NoTimestamp

RECURSIVE TryFormats(_, _, _)
TryFormats(fmts, b, k) ==
    IF k > Len(fmts) THEN NoTimestamp
    ELSE IF Strptime(b, fmts[k]).ok THEN Strptime(b, fmts[k])
    ELSE TryFormats(fmts, b, k + 1)

extract_timestamp(cfg, line) ==
    IF line.bracket.fmt = "none" THEN NoTimestamp
    ELSE TryFormats(cfg.TIMESTAMP_FORMATS, line.bracket, 1)

(* ------------------------------ parse_line ----------------------------- *)
\* re.search(pat, line): the tokens of the line the pattern matches.
Search(p, line) ==
    {t \in line.toks :
        /\ t.key = p.key
        /\ \/ p.cls \in {"word", "rest"}
           \/ p.cls = "digits" /\ IsDigits(t.val)}

Group1(p, line) == (CHOOSE t \in Search(p, line) : TRUE).val

\* The event one pass of the inner loop builds for event type evt.
EventOf(cfg, line, ts, filename, evt, lineno) ==
    LET patterns == cfg.PATTERN_CONFIG[evt]
        hit == {k \in 1..Len(patterns) : Search(patterns[k], line) # {}}
    IN  [ time |-> ts, file |-> filename, type |-> evt, line |-> lineno,
          fields |-> [f \in {patterns[k].field : k \in hit} |->
                        LET k == CHOOSE j \in hit : patterns[j].field = f
                        IN  Strip(Group1(patterns[k], line))] ]

Matched(cfg, line, evt) ==
    \E k \in 1..Len(cfg.PATTERN_CONFIG[evt]) :
        Search(cfg.PATTERN_CONFIG[evt][k], line) # {}

\* A faulty TryTypes: the loop does not stop at the first matching type, so
\* the last matching type wins.
RECURSIVE TryTypes_LastWins(_, _, _, _, _, _)
TryTypes_LastWins(cfg, line, ts, filename, lineno, k) ==
    IF k > Len(cfg.EVENT_SEQUENCE) THEN <<>>
    ELSE LET later == TryTypes_LastWins(cfg, line, ts, filename, lineno, k + 1)
         IN  IF later # <<>> THEN later
             ELSE IF Matched(cfg, line, cfg.EVENT_SEQUENCE[k])
             THEN <<EventOf(cfg, line, ts, filename, cfg.EVENT_SEQUENCE[k], lineno)>>
             ELSE <<>>

\* for evt in EVENT_SEQUENCE: ... if matched: append; return
RECURSIVE TryTypes(_, _, _, _, _, _)
TryTypes(cfg, line, ts, filename, lineno, k) ==
    IF k > Len(cfg.EVENT_SEQUENCE) THEN <<>>
    ELSE IF Matched(cfg, line, cfg.EVENT_SEQUENCE[k])
         THEN <<EventOf(cfg, line, ts, filename, cfg.EVENT_SEQUENCE[k], lineno)>>
         ELSE TryTypes(cfg, line, ts, filename, lineno, k + 1)

\* The events parse_line appends for one line: none or one.
parse_line(cfg, line, filename, lineno) ==
    LET ts == extract_timestamp(cfg, line)
    IN  IF ~ts.ok THEN <<>>
        ELSE TryTypes(cfg, line, ts.time, filename, lineno, 1)

(* ------------------------- the cycle of a run -------------------------- *)
\* What a stage of the cycle dict holds: None, one event dict, or a list.
NoneSlot == [kind |-> "none"]
EventSlot(ev) == [kind |-> "event", ev |-> ev]
ListSlot(evs) == [kind |-> "list", evs |-> evs]

\* cycle = {evt: None for evt in seq}; cycle[seq[-1]] = []
NewCycle(seq) ==
    [s \in Range(seq) |-> IF s = seq[Len(seq)] THEN ListSlot(<<>>) ELSE NoneSlot]

\* seq.index(type), counted from 0 as in the source; -1 stands for ValueError.
SeqIndex(seq, type) ==
    IF \E k \in 1..Len(seq) : seq[k] = type
    THEN (CHOOSE k \in 1..Len(seq) :
            seq[k] = type /\ \A j \in 1..(k - 1) : seq[j] # type) - 1
    ELSE 0 - 1

\* dict.get(key): None when the key is missing.
CycleGet(cycle, stage) ==
    IF stage \in DOMAIN cycle THEN cycle[stage] ELSE NoneSlot

\* Python truth of what a stage holds (an event dict is never empty).
Truthy(slot) ==
    CASE slot.kind = "none" -> FALSE
      [] slot.kind = "event" -> TRUE
      [] slot.kind = "list" -> slot.evs # <<>>

(* ----------------------------- build_record ---------------------------- *)
FileRank(name) == IF name = "sample.log" THEN 1 ELSE 2

RECURSIVE SortedFiles(_)
SortedFiles(sf) ==
    IF sf = {} THEN <<>>
    ELSE LET first == CHOOSE f \in sf : \A g \in sf : FileRank(f) <= FileRank(g)
         IN  <<first>> \o SortedFiles(sf \ {first})

\* '+'.join(sorted(source_files))
JoinFiles(sf) == [joined |-> SortedFiles(sf)]

\* time.strftime("%y/%m/%d %H:%M:%S"): the sub-second part is dropped.
Strftime(t) == Stamp(t \div 1000000)

AvgKey(field) == IF field = "Value" THEN "AvgValue" ELSE "AvgTemp"

\* evt.get(field, 'NA')
FieldOrNA(ev, field) ==
    IF field \in DOMAIN ev.fields THEN Str(ev.fields[field]) ELSE Str("NA")

\* float(e.get(field, 0))
EventFloat(ev, field) ==
    IF field \in DOMAIN ev.fields THEN StrToFloat(ev.fields[field])
    ELSE [ok |-> TRUE, nan |-> FALSE, v |-> 0]

\* values: the floats of the timing events, conversion failures skipped.
RECURSIVE TimingValues(_, _)
TimingValues(evs, field) ==
    IF evs = <<>> THEN <<>>
    ELSE LET x == EventFloat(evs[1], field)
         IN  (IF x.ok THEN <<x>> ELSE <<>>) \o TimingValues(Tail(evs), field)

\* round(sum(values) / len(values), 2) if values else None
Average(values) ==
    IF values = <<>> THEN None
    ELSE IF \E k \in 1..Len(values) : values[k].nan THEN NaN
    ELSE Float(10 * RoundDiv(100 * SumSeq([k \in 1..Len(values) |-> values[k].v]),
                             Len(values)))

\* record[field] = evt.get(field, 'NA') for each field of one stage.
StageFields(cfg, stage, ev) ==
    LET patterns == cfg.PATTERN_CONFIG[stage]
    IN  [f \in {patterns[k].field : k \in 1..Len(patterns)} |-> FieldOrNA(ev, f)]

\* The fields the loop over ['query', 'technique'] leaves in the record.
MergedFields(cfg, cycle) ==
    LET q == CycleGet(cycle, "query")
        t == CycleGet(cycle, "technique")
        qf == IF Truthy(q) THEN StageFields(cfg, "query", q.ev) ELSE <<>>
        tf == IF Truthy(t) THEN StageFields(cfg, "technique", t.ev) ELSE <<>>
    IN  tf @@ qf

AverageFields(cfg, timing) ==
    LET patterns == cfg.PATTERN_CONFIG[cfg.EVENT_SEQUENCE[Len(cfg.EVENT_SEQUENCE)]]
    IN  [a \in {AvgKey(patterns[k].field) : k \in 1..Len(patterns)} |->
            LET k == CHOOSE j \in 1..Len(patterns) : AvgKey(patterns[j].field) = a
            IN  Average(TimingValues(timing, patterns[k].field))]

\* A faulty DurationField: no duration for a single timing event.
DurationField_NeedsTwo(timing) ==
    IF Len(timing) < 2 THEN <<>>
    ELSE "Duration(s)" :>
            Float(RoundDiv(timing[Len(timing)].time - timing[1].time, 1000))

\* round((end_t - start_t).total_seconds(), 3), set only for a non-empty list.
DurationField(timing) ==
    IF timing = <<>> THEN <<>>
    ELSE "Duration(s)" :>
            Float(RoundDiv(timing[Len(timing)].time - timing[1].time, 1000))

\* The exceptions build_record lets escape: a list where an event dict is
\* expected (tech['time'], evt.get), an event dict or None where the list of
\* timing events is expected (e.get on a key of the dict).
BuildRaises(cfg, cycle) ==
    LET seq == cfg.EVENT_SEQUENCE
        last == CycleGet(cycle, seq[Len(seq)])
    IN  \/ \E stage \in {"query", "technique"} :
              /\ CycleGet(cycle, stage).kind = "list"
              /\ Truthy(CycleGet(cycle, stage))
        \/ last.kind # "list" /\ Len(cfg.PATTERN_CONFIG[seq[Len(seq)]]) > 0

\* build_record: [raised, rec]
build_record(cfg, cycle, source_files) ==
    IF BuildRaises(cfg, cycle) THEN [raised |-> TRUE, rec |-> <<>>]
    ELSE
      LET seq == cfg.EVENT_SEQUENCE
          tech == CycleGet(cycle, "technique")
          last == CycleGet(cycle, seq[Len(seq)])
          timing == IF last.kind = "list" THEN last.evs ELSE <<>>
          frames == IF last.kind = "list" THEN Len(last.evs)
                    ELSE 3 + Cardinality(DOMAIN last.ev.fields)
      IN  [ raised |-> FALSE,
            rec |-> DurationField(timing)
                    @@ ("frames" :> IntV(frames))
                    @@ AverageFields(cfg, timing)
                    @@ MergedFields(cfg, cycle)
                    @@ ( "SourceFiles" :> JoinFiles(source_files) @@
                         "StartTime" :> IF Truthy(tech) THEN Strftime(tech.ev.time)
                                        ELSE Str("NA") ) ]

(* ---------------------------- validate_record -------------------------- *)
\* rec.get('StartTime') is neither None nor '', frames is an int, no NaN.
validate_record(rec) ==
    /\ "StartTime" \in DOMAIN rec
    /\ rec["StartTime"] \notin {None, Str("")}
    /\ "frames" \in DOMAIN rec
    /\ DOMAIN rec["frames"] = {"int"}
    /\ \A k \in DOMAIN rec : rec[k] # NaN

(* ----------------------------- finalize_cycle -------------------------- *)
\* What one call does: "saved" (appended, cycles_completed += 1), "rejected"
\* (validate_record returned False: nothing is touched) or "error" (an
\* exception: cycle_errors += 1).
finalize_cycle(cfg, cycle, source_files) ==
    LET b == build_record(cfg, cycle, source_files)
    IN  IF b.raised THEN [outcome |-> "error", rec |-> <<>>]
        ELSE IF validate_record(b.rec) THEN [outcome |-> "saved", rec |-> b.rec]
        ELSE [outcome |-> "rejected", rec |-> b.rec]

\* The results and the metrics after the call.
ResultsAfter(results, fin) ==
    IF fin.outcome = "saved" THEN Append(results, fin.rec) ELSE results

MetricsAfter(metrics, fin) ==
    CASE fin.outcome = "saved" ->
            [metrics EXCEPT !.cycles_completed = @ + 1]
      [] fin.outcome = "error" ->
            [metrics EXCEPT !.cycle_errors = @ + 1]
      [] OTHER -> metrics

(* ----------------------------- analyze_events -------------------------- *)
\* self.events.sort(key=lambda e: e['time']): a stable sort.
RECURSIVE InsertByTime(_, _)
InsertByTime(sorted, e) ==
    IF sorted = <<>> THEN <<e>>
    ELSE IF sorted[Len(sorted)].time <= e.time THEN Append(sorted, e)
    ELSE Append(InsertByTime(SubSeq(sorted, 1, Len(sorted) - 1), e),
                sorted[Len(sorted)])

RECURSIVE SortByTime(_)
SortByTime(evs) ==
    IF evs = <<>> THEN <<>>
    ELSE InsertByTime(SortByTime(SubSeq(evs, 1, Len(evs) - 1)), evs[Len(evs)])

\* The locals of the loop are st = [state, cycle, source_files].  Each
\* branch gives the locals after it and whether finalize_cycle was called on
\* the cycle as it stood before.

\* if idx == 0:
OnFirstStage(seq, st, ev) ==
    [ state |-> 1,
      cycle |-> [NewCycle(seq) EXCEPT ![ev.type] = EventSlot(ev)],
      source_files |-> {ev.file},
      finalize |-> st.state = Len(seq) ]

\* elif idx == state:
OnExpectedStage(seq, st, ev) ==
    [ state |-> st.state + 1,
      cycle |-> IF SeqIndex(seq, ev.type) = Len(seq) - 1
                THEN [st.cycle EXCEPT ![ev.type] = ListSlot(Append(@.evs, ev))]
                ELSE [st.cycle EXCEPT ![ev.type] = EventSlot(ev)],
      source_files |-> st.source_files \cup {ev.file},
      finalize |-> FALSE ]

\* A faulty OnUnexpected: the reset of state is forgotten.
OnUnexpected_KeepState(seq, st, ev) ==
    [ state |-> st.state,
      cycle |-> st.cycle,
      source_files |-> st.source_files,
      finalize |-> FALSE ]

\* else: state = 0
OnUnexpected(seq, st, ev) ==
    [ state |-> 0,
      cycle |-> st.cycle,
      source_files |-> st.source_files,
      finalize |-> FALSE ]

\* A faulty AnalyzeEvent: a last-stage event that finds the cycle complete is
\* appended to the list, as an accumulating last stage would have it.
AnalyzeEvent_Accumulate(seq, st, ev) ==
    LET idx == SeqIndex(seq, ev.type)
    IN  IF idx < 0
        THEN [ state |-> st.state, cycle |-> st.cycle,
               source_files |-> st.source_files, finalize |-> FALSE ]
        ELSE IF idx = 0 THEN OnFirstStage(seq, st, ev)
        ELSE IF idx = st.state THEN OnExpectedStage(seq, st, ev)
        ELSE IF idx = Len(seq) - 1 /\ st.state = Len(seq)
        THEN [ state |-> st.state,
               cycle |-> [st.cycle EXCEPT ![ev.type] = ListSlot(Append(@.evs, ev))],
               source_files |-> st.source_files \cup {ev.file},
               finalize |-> FALSE ]
        ELSE OnUnexpected(seq, st, ev)

\* One pass of "for ev in self.events".
AnalyzeEvent(seq, st, ev) ==
    LET idx == SeqIndex(seq, ev.type)
    IN  IF idx < 0
        THEN [ state |-> st.state, cycle |-> st.cycle,
               source_files |-> st.source_files, finalize |-> FALSE ]
        ELSE IF idx = 0 THEN OnFirstStage(seq, st, ev)
        ELSE IF idx = st.state THEN OnExpectedStage(seq, st, ev)
        ELSE OnUnexpected(seq, st, ev)

\* A faulty FlushAtEnd: the cycle complete at the end of input is forgotten.
FlushAtEnd_Never(seq, st) == FALSE

\* if state == len(seq): finalize_cycle(...) after the loop.
FlushAtEnd(seq, st) == st.state = Len(seq)

\* The events a cycle holds, by the line that made them.
CycleLines(cyc) ==
    UNION { CASE cyc[s].kind = "none" -> {}
              [] cyc[s].kind = "event" -> {cyc[s].ev.line}
              [] cyc[s].kind = "list" ->
                    {cyc[s].evs[k].line : k \in 1..Len(cyc[s].evs)}
            : s \in DOMAIN cyc }

(* ------------------------------- state --------------------------------- *)
VARIABLES
    config,        \* self.config
    pc,            \* where process_files stands
    fileNo,        \* the files of file_paths taken so far
    inFile,        \* process_file is reading file fileNo
    events,        \* self.events
    metrics,       \* self.metrics
    results,       \* self.results
    saved,         \* save_results wrote the output file
    state,         \* analyze_events: state
    cycle,         \* analyze_events: cycle
    source_files,  \* analyze_events: source_files
    i,             \* analyze_events: the next event of the loop
    finalized,     \* history: the calls of finalize_cycle
    completed,     \* history: how often state reached len(seq)
    before,        \* history: state as each event of the loop found it
    dropped,       \* history: the events at hand when an event came out of order
    b_cycle,       \* finalize_cycle alone: the cycle it is given
    b_out,         \* finalize_cycle alone: what the call did
    p_line         \* parse_line alone: the line it was given last

vars == << config, pc, fileNo, inFile, events, metrics, results, saved,
           state, cycle, source_files, i, finalized, completed, before,
           dropped, b_cycle, b_out, p_line >>

ZeroMetrics ==
    [ files_processed |-> 0, events_parsed |-> 0,
      cycles_completed |-> 0, cycle_errors |-> 0 ]

NotBuilt == [outcome |-> "none", rec |-> <<>>]

Init ==
    /\ config \in Configs
    /\ pc = "files"
    /\ fileNo = 0
    /\ inFile = FALSE
    /\ events = <<>>
    /\ metrics = ZeroMetrics
    /\ results = <<>>
    /\ saved = FALSE
    /\ state = 0
    /\ cycle = NewCycle(config.EVENT_SEQUENCE)
    /\ source_files = {}
    /\ i = 1
    /\ finalized = <<>>
    /\ completed = 0
    /\ before = <<>>
    /\ dropped = {}
    /\ b_cycle = NewCycle(config.EVENT_SEQUENCE)
    /\ b_out = NotBuilt
    /\ p_line = NoLine

analysisVars == << state, cycle, source_files, i, finalized, completed,
                   before, dropped >>
buildVars == << b_cycle, b_out, p_line >>

(* ----------------------------- process_file ---------------------------- *)
\* process_file opens the next path of file_paths.
OpenFile ==
    /\ pc = "files" /\ ~inFile /\ fileNo < MaxFiles
    /\ fileNo' = fileNo + 1
    /\ inFile' = TRUE
    /\ UNCHANGED << config, pc, events, metrics, results, saved >>
    /\ UNCHANGED analysisVars /\ UNCHANGED buildVars

\* for line in f: self.parse_line(line, path)
ParseLine(line) ==
    /\ pc = "files" /\ inFile /\ Len(events) < MaxEvents
    /\ LET new == parse_line(config, line, FileName(fileNo), Len(events) + 1)
       IN  /\ events' = events \o new
           /\ metrics' = [metrics EXCEPT !.events_parsed = @ + Len(new)]
    /\ UNCHANGED << config, pc, fileNo, inFile, results, saved >>
    /\ UNCHANGED analysisVars /\ UNCHANGED buildVars

\* The file is read to its end: files_processed += 1.
CloseFile ==
    /\ pc = "files" /\ inFile
    /\ inFile' = FALSE
    /\ metrics' = [metrics EXCEPT !.files_processed = @ + 1]
    /\ UNCHANGED << config, pc, fileNo, events, results, saved >>
    /\ UNCHANGED analysisVars /\ UNCHANGED buildVars

\* except Exception: the file is given up, the events it gave stay.
FileError ==
    /\ pc = "files" /\ inFile
    /\ inFile' = FALSE
    /\ UNCHANGED << config, pc, fileNo, events, metrics, results, saved >>
    /\ UNCHANGED analysisVars /\ UNCHANGED buildVars

(* ----------------------------- process_files --------------------------- *)
\* if not file_paths: return
NoFiles ==
    /\ pc = "files" /\ ~inFile /\ fileNo = 0
    /\ pc' = "done"
    /\ UNCHANGED << config, fileNo, inFile, events, metrics, results, saved >>
    /\ UNCHANGED analysisVars /\ UNCHANGED buildVars

\* analyze_events up to its loop; with no events it returns at once and
\* save_results and print_summary end the run.
StartAnalyze ==
    /\ pc = "files" /\ ~inFile /\ fileNo >= 1
    /\ IF events = <<>>
       THEN /\ pc' = "done"
            /\ UNCHANGED << events, state, cycle, source_files, i >>
       ELSE /\ pc' = "loop"
            /\ events' = SortByTime(events)
            /\ state' = 0
            /\ cycle' = NewCycle(config.EVENT_SEQUENCE)
            /\ source_files' = {}
            /\ i' = 1
    /\ UNCHANGED << config, fileNo, inFile, metrics, results, saved >>
    /\ UNCHANGED << finalized, completed, before, dropped >>
    /\ UNCHANGED buildVars

\* One pass of the loop of analyze_events, finalize_cycle included.
LoopStep ==
    /\ pc = "loop" /\ i <= Len(events)
    /\ LET seq == config.EVENT_SEQUENCE
           ev == events[i]
           nx == AnalyzeEvent(seq, [state |-> state, cycle |-> cycle,
                                    source_files |-> source_files], ev)
           fin == finalize_cycle(config, cycle, source_files)
       IN  /\ state' = nx.state
           /\ cycle' = nx.cycle
           /\ source_files' = nx.source_files
           /\ results' = IF nx.finalize THEN ResultsAfter(results, fin) ELSE results
           /\ metrics' = IF nx.finalize THEN MetricsAfter(metrics, fin) ELSE metrics
           /\ finalized' = IF nx.finalize
                           THEN Append(finalized, [cycle |-> cycle, at |-> i,
                                                   outcome |-> fin.outcome,
                                                   rec |-> fin.rec])
                           ELSE finalized
           /\ completed' = IF nx.state = Len(seq) THEN completed + 1 ELSE completed
           /\ before' = Append(before, state)
           /\ dropped' = IF SeqIndex(seq, ev.type) \notin {0 - 1, 0, state}
                         THEN dropped \cup CycleLines(cycle) \cup {ev.line}
                         ELSE dropped
    /\ i' = i + 1
    /\ UNCHANGED << config, pc, fileNo, inFile, events, saved >>
    /\ UNCHANGED buildVars

\* The end of analyze_events, then save_results and print_summary.
LoopEnd ==
    /\ pc = "loop" /\ i > Len(events)
    /\ LET seq == config.EVENT_SEQUENCE
           flush == FlushAtEnd(seq, [state |-> state, cycle |-> cycle,
                                     source_files |-> source_files])
           fin == finalize_cycle(config, cycle, source_files)
       IN  /\ results' = IF flush THEN ResultsAfter(results, fin) ELSE results
           /\ metrics' = IF flush THEN MetricsAfter(metrics, fin) ELSE metrics
           /\ finalized' = IF flush
                           THEN Append(finalized, [cycle |-> cycle, at |-> 0,
                                                   outcome |-> fin.outcome,
                                                   rec |-> fin.rec])
                           ELSE finalized
    /\ saved' = (results' # <<>>)
    /\ pc' = "done"
    /\ UNCHANGED << config, fileNo, inFile, events >>
    /\ UNCHANGED << state, cycle, source_files, i, completed, before, dropped >>
    /\ UNCHANGED buildVars

Next ==
    \/ OpenFile
    \/ \E line \in Lines : ParseLine(line)
    \/ CloseFile
    \/ FileError
    \/ NoFiles
    \/ StartAnalyze
    \/ LoopStep
    \/ LoopEnd

Spec == Init /\ [][Next]_vars

(* ------------------- finalize_cycle on any cycle ----------------------- *)
\* build_record, validate_record and finalize_cycle are functions of the
\* cycle: BuildSpec applies them to every complete cycle of TechniqueConfig
\* with up to MaxTiming timing events, in time order as the sort leaves them.
BuildTimes == {1000400, 1000800, 2000000}

FieldVals(field) ==
    CASE field = "Value" -> {"100", "200", "nan", "abc"}
      [] field = "Temp" -> {"5"}
      [] field = "Step" -> {"1"}
      [] OTHER -> {"7"}

AllVals == {"1", "5", "7", "100", "200", "nan", "abc"}

FieldsOf(cfg, stage) ==
    {cfg.PATTERN_CONFIG[stage][k].field : k \in 1..Len(cfg.PATTERN_CONFIG[stage])}

\* The events of one stage: at least one of its fields matched.
StageEvents(cfg, stage, times) ==
    { [time |-> t, file |-> FileName(1), type |-> stage, line |-> 0, fields |-> f] :
        t \in times,
        f \in UNION { {g \in [D -> AllVals] : \A d \in D : g[d] \in FieldVals(d)} :
                      D \in (SUBSET FieldsOf(cfg, stage)) \ {{}} } }

TimingLists(cfg) ==
    LET seq == cfg.EVENT_SEQUENCE
        E == StageEvents(cfg, seq[Len(seq)], BuildTimes)
    IN  UNION { {l \in [1..n -> E] :
                    \A k \in 1..(n - 1) : l[k].time <= l[k + 1].time} :
                n \in 0..MaxTiming }

\* What a stage before the last holds in a complete cycle: its event.
StageChoices(cfg, stage) ==
    {EventSlot(e) : e \in StageEvents(cfg, stage, {1000400})}

BuildCycles(cfg) ==
    LET seq == cfg.EVENT_SEQUENCE
        last == seq[Len(seq)]
        early == Range(seq) \ {last}
        picks == { c \in [early -> UNION {StageChoices(cfg, s) : s \in early}] :
                     \A s \in early : c[s] \in StageChoices(cfg, s) }
    IN  { [s \in Range(seq) |-> IF s = last THEN ListSlot(l) ELSE c[s]] :
            c \in picks, l \in TimingLists(cfg) }

BuildInit ==
    /\ config = TechniqueConfig
    /\ pc = "build"
    /\ fileNo = 0
    /\ inFile = FALSE
    /\ events = <<>>
    /\ metrics = ZeroMetrics
    /\ results = <<>>
    /\ saved = FALSE
    /\ state = Len(config.EVENT_SEQUENCE)
    /\ cycle = NewCycle(config.EVENT_SEQUENCE)
    /\ source_files = {FileName(1)}
    /\ i = 1
    /\ finalized = <<>>
    /\ completed = 0
    /\ before = <<>>
    /\ dropped = {}
    /\ b_cycle \in BuildCycles(config)
    /\ b_out = NotBuilt
    /\ p_line = NoLine

\* self.finalize_cycle(cycle, source_files)
Finalize ==
    /\ pc = "build"
    /\ LET fin == finalize_cycle(config, b_cycle, source_files)
       IN  /\ b_out' = fin
           /\ results' = ResultsAfter(results, fin)
           /\ metrics' = MetricsAfter(metrics, fin)
    /\ pc' = "built"
    /\ UNCHANGED << config, fileNo, inFile, events, saved, b_cycle, p_line >>
    /\ UNCHANGED analysisVars

BuildNext == Finalize

BuildSpec == BuildInit /\ [][BuildNext]_vars

(* ------------------------ parse_line on any line ----------------------- *)
MaxParsed == 2

\* self.parse_line(line, path), the line remembered.
ParseAnyLine(line) ==
    /\ Len(events) < MaxParsed
    /\ LET new == parse_line(config, line, FileName(1), Len(events) + 1)
       IN  /\ events' = events \o new
           /\ metrics' = [metrics EXCEPT !.events_parsed = @ + Len(new)]
    /\ p_line' = line
    /\ UNCHANGED << config, pc, fileNo, inFile, results, saved, b_cycle, b_out >>
    /\ UNCHANGED analysisVars

ParseNext == \E line \in AllLines : ParseAnyLine(line)

ParseSpec == Init /\ [][ParseNext]_vars

(* ============================== properties ============================= *)
EventSeq == config.EVENT_SEQUENCE
LastStage == EventSeq[Len(EventSeq)]

\* The events of the loop that were neither the first stage nor the stage
\* expected next (index != 0 and index != state).
OutOfOrder ==
    {j \in 1..Len(before) : SeqIndex(EventSeq, events[j].type) \notin {0, before[j]}}

\* state as event j left it.
StateAfter(j) == IF j < Len(before) THEN before[j + 1] ELSE state

\* Events from..to of the sorted list are one in-order traversal.
IsTraversal(from, to) ==
    /\ to - from + 1 = Len(EventSeq)
    /\ \A k \in 1..Len(EventSeq) : events[from + k - 1].type = EventSeq[k]

LinesOf(from, to) == {events[j].line : j \in from..to}

\* The record of a call of finalize_cycle that built one.
Built(f) == f.outcome \in {"saved", "rejected"}

\* The run of test_full_cycle: sample.log holds "[... 00:00:00.000] Step=1"
\* and "[... 00:00:01.000] Value=100".
TestRun ==
    /\ config = TestConfig
    /\ pc = "done"
    /\ fileNo = 1
    /\ Len(events) = 2
    /\ events[1] = [ time |-> 0, file |-> "sample.log", type |-> "init",
                     line |-> 1, fields |-> ("Step" :> "1") ]
    /\ events[2] = [ time |-> 1000000, file |-> "sample.log", type |-> "execute",
                     line |-> 2, fields |-> ("Value" :> "100") ]

\* C1: the run of test_full_cycle ends with exactly one record, which has
\* Step = "1", AvgValue = 100.0 and frames = 1, and with files_processed = 1,
\* events_parsed = 2 and cycles_completed = 1.
C1_TestFullCycle ==
    (TestRun /\ metrics.files_processed = 1) =>
        /\ metrics.events_parsed = 2
        /\ metrics.cycles_completed = 1
        /\ Len(results) = 1
        /\ "AvgValue" \in DOMAIN results[1] /\ results[1]["AvgValue"] = Float(100000)
        /\ results[1]["frames"] = IntV(1)
        /\ "Step" \in DOMAIN results[1] /\ results[1]["Step"] = Str("1")

\* C2: when the sorted events are k >= 1 back-to-back in-order traversals of
\* EVENT_SEQUENCE, finalize_cycle is called exactly k times: for the first
\* k-1 traversals when the next first-stage event arrives, for the last one
\* at the end of the input, each time with the events of that traversal.
C2_BackToBackTraversals ==
    LET n == Len(EventSeq)
        k == Len(events) \div n
    IN  ( /\ pc = "done"
          /\ events # <<>>
          /\ Len(events) = k * n
          /\ \A m \in 1..k : IsTraversal((m - 1) * n + 1, m * n) )
        => /\ Len(finalized) = k
           /\ \A m \in 1..k :
                /\ finalized[m].at = IF m < k THEN m * n + 1 ELSE 0
                /\ CycleLines(finalized[m].cycle) = LinesOf((m - 1) * n + 1, m * n)

\* init, execute, init, execute with ascending timestamps gave two cycles.
C2_Witness ==
    /\ pc = "done"
    /\ config = TestConfig
    /\ Len(events) = 4
    /\ IsTraversal(1, 2) /\ IsTraversal(3, 4)
    /\ events[1].time < events[4].time
    /\ Len(finalized) = 2
    /\ Len(results) = 2

\* C3: at the end of the run every cycle that became complete (state reached
\* len(EVENT_SEQUENCE)) has been passed to finalize_cycle exactly once.
C3_CompleteFinalizedOnce ==
    pc = "done" =>
        /\ Len(finalized) = completed
        /\ \A m, n \in 1..Len(finalized) :
              m # n => CycleLines(finalized[m].cycle) # CycleLines(finalized[n].cycle)

\* C4: an event that is neither the first stage nor the stage expected next
\* leaves state = 0 and triggers no call of finalize_cycle; the events
\* collected for the cycle in progress and the event itself are in no
\* finalized cycle, and the event is not in the cycle in progress either; an
\* in-order traversal that ends the input after it is still finalized; and
\* the stream execute, init finalizes nothing.
C4_OutOfOrderDiscards ==
    /\ \A j \in OutOfOrder :
          /\ StateAfter(j) = 0
          /\ \A m \in 1..Len(finalized) : finalized[m].at # j
          /\ events[j].line \notin CycleLines(cycle)
          /\ ( pc = "done" /\ IsTraversal(j + 1, Len(events)) ) =>
                /\ finalized # <<>>
                /\ finalized[Len(finalized)].at = 0
                /\ CycleLines(finalized[Len(finalized)].cycle)
                      = LinesOf(j + 1, Len(events))
    /\ \A m \in 1..Len(finalized) : CycleLines(finalized[m].cycle) \cap dropped = {}
    /\ ( /\ pc = "done" /\ config = TestConfig /\ Len(events) = 2
         /\ events[1].type = "execute" /\ events[2].type = "init" )
       => finalized = <<>> /\ results = <<>>

\* A cycle in progress was discarded by an out-of-order event, and a later
\* in-order traversal was finalized all the same.
C4_Witness ==
    /\ pc = "done"
    /\ \E j \in OutOfOrder :
          /\ before[j] > 0
          /\ IsTraversal(j + 1, Len(events))
          /\ finalized # <<>>
          /\ finalized[Len(finalized)].outcome = "saved"

\* C5: when validate_record rejects the record finalize_cycle built, the
\* record is not appended, cycles_completed stays and cycle_errors grows by
\* exactly one (the run starts from empty results and zero counters).
C5_RejectedCounted ==
    b_out.outcome = "rejected" =>
        /\ results = <<>>
        /\ metrics.cycles_completed = 0
        /\ metrics.cycle_errors = 1

\* The timing events of the cycle that carry a convertible value of a field.
Usable(field) ==
    LET evs == b_cycle[LastStage].evs
    IN  SelectSeq(evs, LAMBDA e : /\ field \in DOMAIN e.fields
                                  /\ StrToFloat(e.fields[field]).ok)

\* The mean of the usable values, rounded to 2 decimals; None without any.
MeanOfUsable(field) ==
    LET u == Usable(field)
    IN  IF u = <<>> THEN None
        ELSE IF \E k \in 1..Len(u) : StrToFloat(u[k].fields[field]).nan THEN NaN
        ELSE Float(10 * RoundDiv(
                 100 * SumSeq([k \in 1..Len(u) |-> StrToFloat(u[k].fields[field]).v]),
                 Len(u)))

\* C6: for every field of the last stage, Avg<field> is the mean (2 decimals)
\* over exactly the timing events that carry a convertible value of the
\* field, an event without the field is skipped and never counted as zero,
\* Avg<field> is None when no event has a usable value, and frames is the
\* number of timing events.
C6_AverageOverUsable ==
    Built(b_out) =>
        /\ b_out.rec["frames"] = IntV(Len(b_cycle[LastStage].evs))
        /\ \A field \in FieldsOf(config, LastStage) :
              /\ AvgKey(field) \in DOMAIN b_out.rec
              /\ b_out.rec[AvgKey(field)] = MeanOfUsable(field)

\* C7: at every point of analyze_events the cycle in progress maps the last
\* stage to a list and every other stage to None or to one event.
C7_CycleShape ==
    pc = "loop" =>
        \A s \in DOMAIN cycle :
            IF s = LastStage THEN cycle[s].kind = "list"
            ELSE cycle[s].kind \in {"none", "event"}

\* Seconds (3 decimals, in thousandths) from the first to the last timing event.
Elapsed(evs) == Float(RoundDiv(evs[Len(evs)].time - evs[1].time, 1000))

\* C8 as stated: Duration(s) is None or absent with zero or exactly one
\* timing event, and the elapsed seconds otherwise.
C8_DurationNoneUpToOne ==
    Built(b_out) =>
        LET evs == b_cycle[LastStage].evs
            rec == b_out.rec
        IN  IF Len(evs) <= 1
            THEN "Duration(s)" \notin DOMAIN rec \/ rec["Duration(s)"] = None
            ELSE "Duration(s)" \in DOMAIN rec /\ rec["Duration(s)"] = Elapsed(evs)

\* C8 amended: Duration(s) is absent with zero timing events; with one or
\* more it is the elapsed seconds (3 decimals) from the first to the last
\* timing event, which is 0.0 when there is exactly one.
C8_DurationAbsentOnlyWhenEmpty ==
    Built(b_out) =>
        LET evs == b_cycle[LastStage].evs
            rec == b_out.rec
        IN  IF Len(evs) = 0
            THEN "Duration(s)" \notin DOMAIN rec
            ELSE /\ "Duration(s)" \in DOMAIN rec
                 /\ rec["Duration(s)"] = Elapsed(evs)
                 /\ Len(evs) = 1 => rec["Duration(s)"] = Float(0)

\* A record built from exactly one timing event carries Duration(s) = 0.0.
C8_Witness ==
    /\ Built(b_out)
    /\ Len(b_cycle[LastStage].evs) = 1
    /\ "Duration(s)" \in DOMAIN b_out.rec
    /\ b_out.rec["Duration(s)"] = Float(0)

\* The line has a timestamp one of the configured formats parses.
HasTimestamp(line) ==
    \E k \in 1..Len(config.TIMESTAMP_FORMATS) :
        line.bracket.fmt = config.TIMESTAMP_FORMATS[k]

\* The positions in EVENT_SEQUENCE of the types with a pattern matching the line.
MatchingTypes(line) ==
    {k \in 1..Len(EventSeq) :
        \E p \in Range(config.PATTERN_CONFIG[EventSeq[k]]) : Search(p, line) # {}}

\* What C9 says one call of parse_line on the line does to events and metrics.
ParseEffect(line) ==
    IF HasTimestamp(line) /\ MatchingTypes(line) # {}
    THEN LET first == CHOOSE k \in MatchingTypes(line) :
                         \A j \in MatchingTypes(line) : k <= j
             pats == Range(config.PATTERN_CONFIG[EventSeq[first]])
             e == events'[Len(events')]
         IN  /\ Len(events') = Len(events) + 1
             /\ SubSeq(events', 1, Len(events)) = events
             /\ e.type = EventSeq[first]
             /\ e.time = line.bracket.time
             /\ DOMAIN e.fields = {p.field : p \in {q \in pats : Search(q, line) # {}}}
             /\ \A p \in pats : Search(p, line) # {} =>
                   \E t \in line.toks : t.key = p.key /\ e.fields[p.field] = Strip(t.val)
             /\ metrics' = [metrics EXCEPT !.events_parsed = @ + 1]
    ELSE events' = events /\ metrics' = metrics

\* C9: parse_line appends at most one event: with a parseable timestamp the
\* event of the first type in EVENT_SEQUENCE order with a matching pattern,
\* carrying exactly that type's matching fields, and events_parsed grows by
\* 1; without a timestamp or a matching type nothing changes.
C9_ParseLine == [][ParseEffect(p_line')]_vars

\* A line matching the patterns of two event types gave one event of the first.
C9_Witness ==
    /\ config = TestConfig
    /\ HasTimestamp(p_line)
    /\ MatchingTypes(p_line) = {1, 2}
    /\ events # <<>>
    /\ events[Len(events)].type = "init"
    /\ DOMAIN events[Len(events)].fields = {"Step"}
    /\ metrics.events_parsed = Len(events)

====
